---- MODULE Spec2Model ----
(***************************************************************************)
(* Model of src/src/vs/workbench/services/textfile/common/encoding.ts:     *)
(* encoding detection (BOM, zero-byte heuristic, statistical guess), the   *)
(* decode stream adapter (toDecodeStream) and the encode readable          *)
(* (toEncodeReadable).                                                     *)
(*                                                                         *)
(* Bytes are integers 0..255, buffers are sequences of bytes, strings      *)
(* (encoding labels) are sequences of one-character strings and decoded    *)
(* text is a sequence of code points.                                      *)
(***************************************************************************)
EXTENDS Integers, Sequences, FiniteSets, TLC

VARIABLES
    \* ---- detection of one byte window (detectEncodingFromBuffer) ----
    win,        \* the call's arguments: [buffer, bytesRead, autoGuessEncoding]
    det,        \* what the calls returned so far
    dpc         \* position of the caller

VARIABLES
    \* ---- a caller of toCanonicalName ----
    cnEnc,      \* the label the caller starts from
    cnNames     \* what the calls returned, each call given the one before

VARIABLES
    \* ---- one toEncodeReadable session ----
    eEncoding,  \* the target encoding argument
    eAddBOM,    \* options?.addBOM
    eSource,    \* the string chunks the source readable yields before its end
    ePos,       \* how many of them have been read
    eBytesRead, \* bytesRead
    eDone,      \* done
    eEncoder,   \* the iconv encoder
    eReads,     \* what the calls of read() returned, in order
    eCalls      \* how often readable.read() and encoder.end() were called

VARIABLES
    \* ---- one toDecodeStream session ----
    options,        \* [guessEncoding, minBytesRequiredForDetection]
    source,         \* the source stream: [paused, ended, emitted, errored]
    bufferedChunks, \* bufferedChunks, as indices into Chunks
    bytesBuffered,  \* bytesBuffered
    decoder,        \* decoder (NoDecoder: undefined)
    promise,        \* the promise toDecodeStream returned
    target,         \* the calls made on the target stream, in order
    tasks,          \* the createDecoder call of the data and of the end handler
    journal         \* what the session did, in order

decodeVars == <<options, source, bufferedChunks, bytesBuffered, decoder, promise,
                target, tasks, journal>>
nameVars == <<cnEnc, cnNames>>
pureVars == <<win, det, dpc, cnEnc, cnNames>>
encodeVars == <<eEncoding, eAddBOM, eSource, ePos, eBytesRead, eDone, eEncoder,
                eReads, eCalls>>
vars == <<win, det, dpc, cnEnc, cnNames, eEncoding, eAddBOM, eSource, ePos, eBytesRead, eDone,
          eEncoder, eReads, eCalls, options, source, bufferedChunks,
          bytesBuffered, decoder, promise, target, tasks, journal>>

(***************************************************************************)
(* Values                                                                  *)
(***************************************************************************)
\* JavaScript null for a string-typed value: a value no string is equal to
Null == <<"<null>">>
\* JavaScript null for a buffer-typed value: a value no buffer is equal to
NullBuffer == <<-1>>

Min(a, b) == IF a < b THEN a ELSE b

UTF8 == <<"u", "t", "f", "8">>
UTF8_with_bom == <<"u", "t", "f", "8", "b", "o", "m">>
UTF16be == <<"u", "t", "f", "1", "6", "b", "e">>
UTF16le == <<"u", "t", "f", "1", "6", "l", "e">>

UTF16be_BOM == <<254, 255>>
UTF16le_BOM == <<255, 254>>
UTF8_BOM == <<239, 187, 191>>

ZERO_BYTE_DETECTION_BUFFER_MAX_LEN_longer == 512 + 1
ZERO_BYTE_DETECTION_BUFFER_MAX_LEN == 512
NO_ENCODING_GUESS_MIN_BYTES == 512
AUTO_ENCODING_GUESS_MIN_BYTES == 512 * 8

\* the byte at index i of a buffer filled with UTF-16LE text, UTF-16BE text,
\* single-byte text or zeros
Fills == {"le", "be", "text", "zero"}

FillByte(fill, i) ==
    CASE fill = "le" -> IF i % 2 = 0 THEN 65 ELSE 0
      [] fill = "be" -> IF i % 2 = 0 THEN 0 ELSE 65
      [] fill = "text" -> 65
      [] fill = "zero" -> 0

\* VSBuffer.readUInt8(i), 0-based, of a buffer holding at least i+1 bytes
readUInt8(buffer, i) == buffer[i + 1]

(***************************************************************************)
(* detectEncodingByBOMFromBuffer                                           *)
(***************************************************************************)
detectEncodingByBOMFromBuffer_swapped(buffer, bytesRead) ==
    IF buffer = NullBuffer \/ bytesRead < Len(UTF16be_BOM) THEN Null
    ELSE LET b0 == readUInt8(buffer, 0)
             b1 == readUInt8(buffer, 1)
         IN  IF b0 = UTF16be_BOM[1] /\ b1 = UTF16be_BOM[2] THEN UTF16le
             ELSE IF b0 = UTF16le_BOM[1] /\ b1 = UTF16le_BOM[2] THEN UTF16be
             ELSE IF bytesRead < Len(UTF8_BOM) THEN Null
             ELSE IF b0 = UTF8_BOM[1] /\ b1 = UTF8_BOM[2]
                     /\ readUInt8(buffer, 2) = UTF8_BOM[3] THEN UTF8_with_bom
             ELSE Null

detectEncodingByBOMFromBuffer(buffer, bytesRead) ==
    IF buffer = NullBuffer \/ bytesRead < Len(UTF16be_BOM) THEN Null
    ELSE LET b0 == readUInt8(buffer, 0)
             b1 == readUInt8(buffer, 1)
         IN  IF b0 = UTF16be_BOM[1] /\ b1 = UTF16be_BOM[2] THEN UTF16be
             ELSE IF b0 = UTF16le_BOM[1] /\ b1 = UTF16le_BOM[2] THEN UTF16le
             ELSE IF bytesRead < Len(UTF8_BOM) THEN Null
             ELSE IF b0 = UTF8_BOM[1] /\ b1 = UTF8_BOM[2]
                     /\ readUInt8(buffer, 2) = UTF8_BOM[3] THEN UTF8_with_bom
             ELSE Null

(***************************************************************************)
(* Strings: toLowerCase, replace(/[^a-zA-Z0-9]/g, '')                      *)
(***************************************************************************)
UpperChars == <<"A", "B", "C", "D", "E", "F", "G", "H", "I", "J", "K", "L", "M",
                "N", "O", "P", "Q", "R", "S", "T", "U", "V", "W", "X", "Y", "Z">>
LowerChars == <<"a", "b", "c", "d", "e", "f", "g", "h", "i", "j", "k", "l", "m",
                "n", "o", "p", "q", "r", "s", "t", "u", "v", "w", "x", "y", "z">>
DigitChars == <<"0", "1", "2", "3", "4", "5", "6", "7", "8", "9">>

Range(s) == {s[i] : i \in 1..Len(s)}

\* the sequences of a sequence, one after the other
RECURSIVE Flatten(_)
Flatten(seqs) == IF seqs = <<>> THEN <<>> ELSE seqs[1] \o Flatten(Tail(seqs))

toLowerCaseChar(c) ==
    IF c \in Range(UpperChars)
    THEN LowerChars[CHOOSE i \in 1..Len(UpperChars) : UpperChars[i] = c]
    ELSE c

toLowerCase(s) == [i \in 1..Len(s) |-> toLowerCaseChar(s[i])]

IsAlphaNumeric(c) ==
    c \in Range(UpperChars) \cup Range(LowerChars) \cup Range(DigitChars)

stripNonAlphaNumeric(s) == SelectSeq(s, IsAlphaNumeric)

(***************************************************************************)
(* toCanonicalName                                                         *)
(***************************************************************************)
\* lines 275-294: the cases of the switch, <<label, returned name>>
CanonicalCases ==
    <<<<<<"s", "h", "i", "f", "t", "j", "i", "s">>, <<"s", "h", "i", "f", "t", "-", "j", "i", "s">>>>,
       <<<<"u", "t", "f", "1", "6", "l", "e">>, <<"u", "t", "f", "-", "1", "6", "l", "e">>>>,
       <<<<"u", "t", "f", "1", "6", "b", "e">>, <<"u", "t", "f", "-", "1", "6", "b", "e">>>>,
       <<<<"b", "i", "g", "5", "h", "k", "s", "c", "s">>, <<"b", "i", "g", "5", "-", "h", "k", "s", "c", "s">>>>,
       <<<<"e", "u", "c", "j", "p">>, <<"e", "u", "c", "-", "j", "p">>>>,
       <<<<"e", "u", "c", "k", "r">>, <<"e", "u", "c", "-", "k", "r">>>>,
       <<<<"k", "o", "i", "8", "r">>, <<"k", "o", "i", "8", "-", "r">>>>,
       <<<<"k", "o", "i", "8", "u">>, <<"k", "o", "i", "8", "-", "u">>>>,
       <<<<"m", "a", "c", "r", "o", "m", "a", "n">>, <<"x", "-", "m", "a", "c", "-", "r", "o", "m", "a", "n">>>>,
       <<<<"u", "t", "f", "8", "b", "o", "m">>, <<"u", "t", "f", "8">>>>>>

WINDOWS == <<"w", "i", "n", "d", "o", "w", "s">>

IsDigit(c) == c \in Range(DigitChars)

\* enc.match(/windows(\d+)/): the leftmost place where "windows" is followed
\* by a digit, and the longest run of digits there; <<>> if there is none
MatchPlaces(enc) ==
    {i \in 1..(Len(enc) - Len(WINDOWS)) :
        /\ SubSeq(enc, i, i + Len(WINDOWS) - 1) = WINDOWS
        /\ IsDigit(enc[i + Len(WINDOWS)])}

matchWindowsDigits(enc) ==
    IF MatchPlaces(enc) = {} THEN <<>>
    ELSE LET i == CHOOSE k \in MatchPlaces(enc) : \A j \in MatchPlaces(enc) : k <= j
             from == i + Len(WINDOWS)
             to == CHOOSE k \in from..Len(enc) :
                      /\ \A j \in from..k : IsDigit(enc[j])
                      /\ k = Len(enc) \/ ~IsDigit(enc[k + 1])
         IN  SubSeq(enc, from, to)

toCanonicalName_macroman(enc) ==
    IF enc = <<"m", "a", "c", "r", "o", "m", "a", "n">> THEN <<"u", "t", "f", "8", "b", "o", "m">>
    ELSE IF \E i \in 1..Len(CanonicalCases) : CanonicalCases[i][1] = enc
    THEN CanonicalCases[CHOOSE i \in 1..Len(CanonicalCases) :
                           CanonicalCases[i][1] = enc][2]
    ELSE LET m == matchWindowsDigits(enc)
         IN  IF m # <<>> THEN WINDOWS \o <<"-">> \o m ELSE enc

\* lines 273-303
toCanonicalName(enc) ==
    IF \E i \in 1..Len(CanonicalCases) : CanonicalCases[i][1] = enc
    THEN CanonicalCases[CHOOSE i \in 1..Len(CanonicalCases) :
                           CanonicalCases[i][1] = enc][2]
    ELSE LET m == matchWindowsDigits(enc)
         IN  IF m # <<>> THEN WINDOWS \o <<"-">> \o m ELSE enc

(***************************************************************************)
(* guessEncodingByBuffer and toIconvLiteEncoding                           *)
(***************************************************************************)
IGNORE_ENCODINGS == <<<<"a", "s", "c", "i", "i">>,
                      <<"u", "t", "f", "-", "1", "6">>,
                      <<"u", "t", "f", "-", "3", "2">>>>

\* JSCHARDET_TO_ICONV_ENCODINGS[name], or Null when the table has no such key
JSCHARDET_TO_ICONV_ENCODINGS(name) ==
    IF name = <<"i", "b", "m", "8", "6", "6">> THEN <<"c", "p", "8", "6", "6">>
    ELSE IF name = <<"b", "i", "g", "5">> THEN <<"c", "p", "9", "5", "0">>
    ELSE Null

toIconvLiteEncoding(encodingName) ==
    LET normalizedEncodingName == toLowerCase(stripNonAlphaNumeric(encodingName))
        mapped == JSCHARDET_TO_ICONV_ENCODINGS(normalizedEncodingName)
    IN  IF mapped # Null THEN mapped ELSE normalizedEncodingName

\* guessed: what jschardet.detect reported, a label, the empty string or Null
guessEncodingByBuffer(guessed) ==
    IF guessed = Null \/ guessed = <<>> THEN Null
    ELSE LET enc == toLowerCase(guessed)
         IN  IF enc \in Range(IGNORE_ENCODINGS) THEN Null
             ELSE toIconvLiteEncoding(guessed)

(***************************************************************************)
(* detectEncodingFromBuffer                                                *)
(***************************************************************************)
\* the locals of the zero-byte scan before its first iteration
ScanStart == [couldBeUTF16LE |-> TRUE, couldBeUTF16BE |-> TRUE,
              containsZeroByte |-> FALSE, broke |-> FALSE]

ScanStep_breaksOnZero(st, buffer, i) ==
    IF st.broke THEN st
    ELSE LET isEndian == (i % 2 = 1)
             isZeroByte == (readUInt8(buffer, i) = 0)
             zero == st.containsZeroByte \/ isZeroByte
             le == st.couldBeUTF16LE
                   /\ ~((isEndian /\ ~isZeroByte) \/ (~isEndian /\ isZeroByte))
             be == st.couldBeUTF16BE
                   /\ ~((isEndian /\ isZeroByte) \/ (~isEndian /\ ~isZeroByte))
         IN  [couldBeUTF16LE |-> le, couldBeUTF16BE |-> be,
              containsZeroByte |-> zero,
              broke |-> isZeroByte /\ isEndian]

\* one iteration of the scan loop, at index i (an iteration after the break
\* does not happen)
ScanStep(st, buffer, i) ==
    IF st.broke THEN st
    ELSE LET isEndian == (i % 2 = 1)
             isZeroByte == (readUInt8(buffer, i) = 0)
             zero == st.containsZeroByte \/ isZeroByte
             le == st.couldBeUTF16LE
                   /\ ~((isEndian /\ ~isZeroByte) \/ (~isEndian /\ isZeroByte))
             be == st.couldBeUTF16BE
                   /\ ~((isEndian /\ isZeroByte) \/ (~isEndian /\ ~isZeroByte))
         IN  [couldBeUTF16LE |-> le, couldBeUTF16BE |-> be,
              containsZeroByte |-> zero,
              broke |-> isZeroByte /\ ~le /\ ~be]

\* the iterations lo, lo+1, .., hi-1 of the scan loop in this order
RECURSIVE ScanLoop(_, _, _, _)
ScanLoop(st, buffer, lo, hi) ==
    IF lo >= hi THEN st
    ELSE IF hi = lo + 1 THEN ScanStep(st, buffer, lo)
    ELSE LET mid == (lo + hi) \div 2
             left == ScanLoop(st, buffer, lo, mid)
         IN  IF left.broke THEN left ELSE ScanLoop(left, buffer, mid, hi)

\* lines 320-370: BOM, then the zero-byte scan
detectSync(buffer, bytesRead) ==
    LET bom == detectEncodingByBOMFromBuffer(buffer, bytesRead)
    IN  IF bom # UTF16be /\ bom # UTF16le /\ buffer # NullBuffer
        THEN LET st == ScanLoop(ScanStart, buffer, 0,
                                Min(bytesRead, ZERO_BYTE_DETECTION_BUFFER_MAX_LEN))
             IN  IF st.containsZeroByte
                 THEN IF st.couldBeUTF16LE
                      THEN [encoding |-> UTF16le, seemsBinary |-> FALSE]
                      ELSE IF st.couldBeUTF16BE
                      THEN [encoding |-> UTF16be, seemsBinary |-> FALSE]
                      ELSE [encoding |-> bom, seemsBinary |-> TRUE]
                 ELSE [encoding |-> bom, seemsBinary |-> FALSE]
        ELSE [encoding |-> bom, seemsBinary |-> FALSE]

needsGuess_ignoresBinary(r, buffer, autoGuessEncoding) ==
    autoGuessEncoding /\ r.encoding = Null /\ buffer # NullBuffer

\* line 373: whether the call goes on to guessEncodingByBuffer, r being what
\* BOM and zero-byte scan found
needsGuess(r, buffer, autoGuessEncoding) ==
    autoGuessEncoding /\ ~r.seemsBinary /\ r.encoding = Null
    /\ buffer # NullBuffer

detectFinish_keepsBinary(r, buffer, autoGuessEncoding, guessed) ==
    IF autoGuessEncoding /\ r.encoding = Null /\ buffer # NullBuffer
    THEN [seemsBinary |-> r.seemsBinary, encoding |-> guessEncodingByBuffer(guessed),
          guesserInvoked |-> TRUE]
    ELSE [seemsBinary |-> r.seemsBinary, encoding |-> r.encoding,
          guesserInvoked |-> FALSE]

\* lines 372-382: the result, r being what BOM and zero-byte scan found and
\* guessed what the classifier reports for the window when asked
detectFinish(r, buffer, autoGuessEncoding, guessed) ==
    IF needsGuess(r, buffer, autoGuessEncoding)
    THEN [seemsBinary |-> FALSE, encoding |-> guessEncodingByBuffer(guessed),
          guesserInvoked |-> TRUE]
    ELSE [seemsBinary |-> r.seemsBinary, encoding |-> r.encoding,
          guesserInvoked |-> FALSE]

detectEncodingFromBuffer(buffer, bytesRead, autoGuessEncoding, guessed) ==
    detectFinish(detectSync(buffer, bytesRead), buffer, autoGuessEncoding, guessed)

(***************************************************************************)
(* toNodeEncoding                                                          *)
(***************************************************************************)
toNodeEncoding(enc) ==
    IF enc = UTF8_with_bom \/ enc = Null THEN UTF8 ELSE enc

(***************************************************************************)
(* The iconv codecs, as far as encoding goes: UTF-8, UTF-16LE, UTF-16BE    *)
(* and one single-byte code page. Text is a sequence of UTF-16 code units. *)
(***************************************************************************)
CP1252 == <<"c", "p", "1", "2", "5", "2">>

BOMChar == 65279
ReplacementChar == 65533

IsHighSurrogate(c) == c >= 55296 /\ c <= 56319
IsLowSurrogate(c) == c >= 56320 /\ c <= 57343

\* the UTF-8 bytes of one code point
UTF8Bytes(cp) ==
    IF cp < 128 THEN <<cp>>
    ELSE IF cp < 2048 THEN <<192 + (cp \div 64), 128 + (cp % 64)>>
    ELSE IF cp < 65536
    THEN <<224 + (cp \div 4096), 128 + ((cp \div 64) % 64), 128 + (cp % 64)>>
    ELSE <<240 + (cp \div 262144), 128 + ((cp \div 4096) % 64),
           128 + ((cp \div 64) % 64), 128 + (cp % 64)>>

RECURSIVE EncodeUTF8(_)
EncodeUTF8(str) ==
    IF str = <<>> THEN <<>>
    ELSE IF IsHighSurrogate(str[1]) /\ Len(str) >= 2 /\ IsLowSurrogate(str[2])
    THEN UTF8Bytes(65536 + (str[1] - 55296) * 1024 + (str[2] - 56320))
         \o EncodeUTF8(SubSeq(str, 3, Len(str)))
    ELSE IF IsHighSurrogate(str[1]) \/ IsLowSurrogate(str[1])
    THEN UTF8Bytes(ReplacementChar) \o EncodeUTF8(Tail(str))
    ELSE UTF8Bytes(str[1]) \o EncodeUTF8(Tail(str))

RECURSIVE EncodeUnits(_, _)
EncodeUnits(str, bigEndian) ==
    IF str = <<>> THEN <<>>
    ELSE (IF bigEndian THEN <<str[1] \div 256, str[1] % 256>>
          ELSE <<str[1] % 256, str[1] \div 256>>)
         \o EncodeUnits(Tail(str), bigEndian)

\* code page: one byte per code unit, '?' for what the page does not have
EncodeSingleByte(str) == [i \in 1..Len(str) |-> IF str[i] < 256 THEN str[i] ELSE 63]

EncodeText(enc, str) ==
    IF enc = UTF8 THEN EncodeUTF8(str)
    ELSE IF enc = UTF16le THEN EncodeUnits(str, FALSE)
    ELSE IF enc = UTF16be THEN EncodeUnits(str, TRUE)
    ELSE EncodeSingleByte(str)

\* only the Unicode codecs know about a BOM
bomAware(enc) == enc \in {UTF8, UTF16le, UTF16be}

\* iconv.getEncoder(enc, options): with addBOM the encoder prepends the BOM
\* to what its first write is given; a high surrogate ending a write is held
\* back until the next write or the end
getEncoder(enc, addBOM) ==
    [enc |-> enc, addBOM |-> bomAware(enc) /\ addBOM, carry |-> <<>>]

\* encoder.write(str): [encoder |-> the encoder afterwards, bytes |-> result]
encoderWrite(encoder, str) ==
    LET all == (IF encoder.addBOM THEN <<BOMChar>> ELSE <<>>)
               \o encoder.carry \o str
        hold == all # <<>> /\ IsHighSurrogate(all[Len(all)])
    IN  [encoder |-> [encoder EXCEPT !.addBOM = FALSE,
                         !.carry = IF hold THEN <<all[Len(all)]>> ELSE <<>>],
         bytes |-> EncodeText(encoder.enc,
                              IF hold THEN SubSeq(all, 1, Len(all) - 1) ELSE all)]

\* encoder.end(): the bytes of what was held back
encoderEnd(encoder) ==
    [encoder |-> [encoder EXCEPT !.carry = <<>>],
     bytes |-> EncodeText(encoder.enc, encoder.carry)]

(***************************************************************************)
(* toEncodeReadable                                                        *)
(***************************************************************************)
MaxTextChunks == 2
MaxReads == 4

\* "", "hi", e-acute and the euro sign, and a surrogate pair split in two
TextChunks == {<<>>, <<104, 105>>, <<233, 8364>>, <<104, 55357>>, <<56832>>}

TextSources == UNION {[1..n -> TextChunks] : n \in 0..MaxTextChunks}

TargetEncodings == {UTF8, UTF8_with_bom, UTF16be, UTF16le, CP1252}

EmptyInputBOM_swapped(encoding) ==
    IF encoding = UTF8 \/ encoding = UTF8_with_bom THEN UTF8_BOM
    ELSE IF encoding = UTF16be THEN UTF16le_BOM
    ELSE IF encoding = UTF16le THEN UTF16be_BOM
    ELSE NullBuffer

\* the switch of lines 152-160: the BOM returned for an empty input, or
\* NullBuffer when no case matches
EmptyInputBOM(encoding) ==
    IF encoding = UTF8 \/ encoding = UTF8_with_bom THEN UTF8_BOM
    ELSE IF encoding = UTF16be THEN UTF16be_BOM
    ELSE IF encoding = UTF16le THEN UTF16le_BOM
    ELSE NullBuffer

\* no encode session is modelled
EncodeIdle ==
    /\ eEncoding = Null
    /\ eAddBOM = FALSE
    /\ eSource = <<>>
    /\ ePos = 0
    /\ eBytesRead = 0
    /\ eDone = FALSE
    /\ eEncoder = getEncoder(UTF8, FALSE)
    /\ eReads = <<>>
    /\ eCalls = [sourceRead |-> 0, encoderEnd |-> 0]

\* toEncodeReadable(readable, encoding, options) has returned its readable
EncodeSession ==
    /\ eEncoding \in TargetEncodings
    /\ eAddBOM \in BOOLEAN
    /\ eSource \in TextSources
    /\ ePos = 0
    /\ eBytesRead = 0
    /\ eDone = FALSE
    /\ eEncoder = getEncoder(toNodeEncoding(eEncoding), eAddBOM)
    /\ eReads = <<>>
    /\ eCalls = [sourceRead |-> 0, encoderEnd |-> 0]

Read_forgetsDone ==
    /\ Len(eReads) < MaxReads
    /\ UNCHANGED <<eEncoding, eAddBOM, eSource>>
    /\ IF eDone
       THEN /\ eReads' = Append(eReads, NullBuffer)
            /\ UNCHANGED <<ePos, eBytesRead, eDone, eEncoder, eCalls>>
       ELSE IF ePos >= Len(eSource)
       \* readable.read() returns no string
       THEN /\ UNCHANGED <<ePos, eBytesRead, eDone>>
            /\ IF eBytesRead = 0 /\ eAddBOM /\ EmptyInputBOM(eEncoding) # NullBuffer
               THEN /\ eReads' = Append(eReads, EmptyInputBOM(eEncoding))
                    /\ eCalls' = [eCalls EXCEPT !.sourceRead = @ + 1]
                    /\ UNCHANGED eEncoder
               ELSE LET leftovers == encoderEnd(eEncoder)
                    IN  /\ eEncoder' = leftovers.encoder
                        /\ eCalls' = [sourceRead |-> eCalls.sourceRead + 1,
                                      encoderEnd |-> eCalls.encoderEnd + 1]
                        /\ eReads' = Append(eReads,
                                        IF Len(leftovers.bytes) > 0
                                        THEN leftovers.bytes ELSE NullBuffer)
       ELSE LET chunk == eSource[ePos + 1]
                written == encoderWrite(eEncoder, chunk)
            IN  /\ ePos' = ePos + 1
                /\ eBytesRead' = eBytesRead + Len(chunk)
                /\ eEncoder' = written.encoder
                /\ eReads' = Append(eReads, written.bytes)
                /\ eCalls' = [eCalls EXCEPT !.sourceRead = @ + 1]
                /\ UNCHANGED eDone

\* one call of read() on the returned readable
Read ==
    /\ Len(eReads) < MaxReads
    /\ UNCHANGED <<eEncoding, eAddBOM, eSource>>
    /\ IF eDone
       THEN /\ eReads' = Append(eReads, NullBuffer)
            /\ UNCHANGED <<ePos, eBytesRead, eDone, eEncoder, eCalls>>
       ELSE IF ePos >= Len(eSource)
       \* readable.read() returns no string
       THEN /\ eDone' = TRUE
            /\ UNCHANGED <<ePos, eBytesRead>>
            /\ IF eBytesRead = 0 /\ eAddBOM /\ EmptyInputBOM(eEncoding) # NullBuffer
               THEN /\ eReads' = Append(eReads, EmptyInputBOM(eEncoding))
                    /\ eCalls' = [eCalls EXCEPT !.sourceRead = @ + 1]
                    /\ UNCHANGED eEncoder
               ELSE LET leftovers == encoderEnd(eEncoder)
                    IN  /\ eEncoder' = leftovers.encoder
                        /\ eCalls' = [sourceRead |-> eCalls.sourceRead + 1,
                                      encoderEnd |-> eCalls.encoderEnd + 1]
                        /\ eReads' = Append(eReads,
                                        IF Len(leftovers.bytes) > 0
                                        THEN leftovers.bytes ELSE NullBuffer)
       ELSE LET chunk == eSource[ePos + 1]
                written == encoderWrite(eEncoder, chunk)
            IN  /\ ePos' = ePos + 1
                /\ eBytesRead' = eBytesRead + Len(chunk)
                /\ eEncoder' = written.encoder
                /\ eReads' = Append(eReads, written.bytes)
                /\ eCalls' = [eCalls EXCEPT !.sourceRead = @ + 1]
                /\ UNCHANGED eDone

(***************************************************************************)
(* The iconv codecs, as far as decoding goes                               *)
(***************************************************************************)
WINDOWS1252 == <<"w", "i", "n", "d", "o", "w", "s", "1", "2", "5", "2">>

\* the encodings iconv has a codec for, among those of the model
encodingExists(enc) == enc \in {UTF8, UTF16le, UTF16be, CP1252, WINDOWS1252}

\* how many bytes the UTF-8 sequence led by this byte has; 0: not a lead byte
UTF8Need(lead) ==
    IF lead >= 194 /\ lead <= 223 THEN 2
    ELSE IF lead >= 224 /\ lead <= 239 THEN 3
    ELSE IF lead >= 240 /\ lead <= 244 THEN 4
    ELSE 0

\* the code point of a complete UTF-8 sequence of 2, 3 or 4 bytes
UTF8CodePoint(p) ==
    IF Len(p) = 2 THEN (p[1] - 192) * 64 + (p[2] - 128)
    ELSE IF Len(p) = 3
    THEN (p[1] - 224) * 4096 + (p[2] - 128) * 64 + (p[3] - 128)
    ELSE (p[1] - 240) * 262144 + (p[2] - 128) * 4096 + (p[3] - 128) * 64
         + (p[4] - 128)

\* the UTF-16 code units of a code point
CodeUnits(cp) ==
    IF cp < 65536 THEN <<cp>>
    ELSE <<55296 + ((cp - 65536) \div 1024), 56320 + ((cp - 65536) % 1024)>>

\* the UTF-8 decoder fed one byte while holding the incomplete sequence pend
UTF8Start(b) ==
    IF b < 128 THEN [pend |-> <<>>, out |-> <<b>>]
    ELSE IF UTF8Need(b) > 0 THEN [pend |-> <<b>>, out |-> <<>>]
    ELSE [pend |-> <<>>, out |-> <<ReplacementChar>>]

UTF8Step(pend, b) ==
    IF pend = <<>> THEN UTF8Start(b)
    ELSE IF b >= 128 /\ b <= 191
    THEN LET p == Append(pend, b)
         IN  IF Len(p) = UTF8Need(p[1])
             THEN [pend |-> <<>>, out |-> CodeUnits(UTF8CodePoint(p))]
             ELSE [pend |-> p, out |-> <<>>]
    ELSE [pend |-> UTF8Start(b).pend,
          out |-> <<ReplacementChar>> \o UTF8Start(b).out]

\* the UTF-8 decoder fed bytes[lo..hi] in this order
RECURSIVE DecodeUTF8(_, _, _, _)
DecodeUTF8(pend, bytes, lo, hi) ==
    IF lo > hi THEN [pend |-> pend, out |-> <<>>]
    \* a run of ASCII bytes met between characters decodes to itself
    ELSE IF pend = <<>> /\ \A i \in lo..hi : bytes[i] < 128
    THEN [pend |-> <<>>, out |-> SubSeq(bytes, lo, hi)]
    ELSE IF lo = hi THEN UTF8Step(pend, bytes[lo])
    ELSE LET mid == (lo + hi) \div 2
             left == DecodeUTF8(pend, bytes, lo, mid)
             right == DecodeUTF8(left.pend, bytes, mid + 1, hi)
         IN  [out |-> left.out \o right.out, pend |-> right.pend]

\* the UTF-16 decoder fed bytes while holding the odd byte pend
DecodeUTF16(pend, bytes, bigEndian) ==
    LET all == pend \o bytes
        n == Len(all) \div 2
    IN  [out |-> [i \in 1..n |->
                    IF bigEndian THEN all[2 * i - 1] * 256 + all[2 * i]
                    ELSE all[2 * i - 1] + all[2 * i] * 256],
         pend |-> IF Len(all) % 2 = 1 THEN <<all[Len(all)]>> ELSE <<>>]

\* decoder: undefined
NoDecoder == [enc |-> Null, pend |-> <<>>, pass |-> FALSE]

\* iconv.getDecoder(enc) of an encoding iconv has: the Unicode decoders strip
\* a leading BOM from their output (pass: the start of the text has passed)
getDecoder(enc) == [enc |-> enc, pend |-> <<>>, pass |-> ~bomAware(enc)]

\* decoder.write(bytes): [decoder |-> the decoder afterwards, text |-> result]
decoderWrite(dec, bytes) ==
    LET raw == IF dec.enc = UTF8 THEN DecodeUTF8(dec.pend, bytes, 1, Len(bytes))
               ELSE IF dec.enc = UTF16le THEN DecodeUTF16(dec.pend, bytes, FALSE)
               ELSE IF dec.enc = UTF16be THEN DecodeUTF16(dec.pend, bytes, TRUE)
               ELSE [out |-> bytes, pend |-> <<>>]
        strip == ~dec.pass /\ raw.out # <<>> /\ raw.out[1] = BOMChar
    IN  [decoder |-> [enc |-> dec.enc, pend |-> raw.pend,
                      pass |-> dec.pass \/ raw.out # <<>>],
         text |-> IF strip THEN Tail(raw.out) ELSE raw.out]

\* decoder.end(): the text for what the decoder still holds
decoderEnd(dec) ==
    IF dec.enc = UTF8 /\ dec.pend # <<>> THEN <<ReplacementChar>> ELSE <<>>

(***************************************************************************)
(* toDecodeStream                                                          *)
(***************************************************************************)
MaxChunks == 2
MaxFailures == 1

\* options.minBytesRequiredForDetection: undefined
Undefined == -1

FillBytes(fill, n) == [i \in 1..n |-> FillByte(fill, i - 1)]

\* the chunks a source can emit: "hi" after a UTF-8 BOM, 5 bytes; text ending
\* inside a three-byte character, 507 bytes; the rest of that character and
\* "!"; 4096 bytes of UTF-16LE text without BOM
Chunks == << <<239, 187, 191, 104, 105>>,
             FillBytes("text", 505) \o <<226, 130>>,
             <<172, 33>>,
             FillBytes("le", 4096) >>

RECURSIVE concat(_)
\* VSBuffer.concat(chunks)
concat(chunks) ==
    IF chunks = <<>> THEN <<>>
    ELSE Chunks[chunks[1]] \o concat(Tail(chunks))

\* line 43: a ?? b ? c : d is (a ?? b) ? c : d, and a number is true unless 0
minBytesRequiredForDetection(opts) ==
    LET coalesced == IF opts.minBytesRequiredForDetection # Undefined
                     THEN opts.minBytesRequiredForDetection # 0
                     ELSE opts.guessEncoding
    IN  IF coalesced THEN AUTO_ENCODING_GUESS_MIN_BYTES
        ELSE NO_ENCODING_GUESS_MIN_BYTES

\* a promise settles once
resolve(p, detected) ==
    IF p.state = "pending"
    THEN [state |-> "resolved", detected |-> detected, error |-> "none"]
    ELSE p

reject(p, error) ==
    IF p.state = "pending"
    THEN [state |-> "rejected", detected |-> p.detected, error |-> error]
    ELSE p

catch_swallow(p, error) == p

\* lines 79-81: catch (error) { reject(error); }
catch(p, error) == reject(p, error)

bufferChunk_first(chunks, chunk) == <<chunk>> \o chunks

\* line 97: bufferedChunks.push(chunk)
bufferChunk(chunks, chunk) == Append(chunks, chunk)

\* what the classifier reports in a session
SessionReports == {Null, <<"w", "i", "n", "d", "o", "w", "s", "-", "1", "2", "5", "2">>}

BOGUS == <<"b", "o", "g", "u", "s">>

\* what options.overwriteEncoding(detectedEncoding) can resolve to: the
\* detected encoding (UTF-8 for none), a configured override, or an encoding
\* iconv does not have
HookReturns(detectedEncoding) ==
    {IF detectedEncoding = Null THEN UTF8 ELSE detectedEncoding, UTF16le, BOGUS}

\* a further step of createDecoder may fail
MayFail == Len(journal.failures) < MaxFailures

NoTask == [pc |-> "idle", buffer |-> <<>>, bytesRead |-> 0,
           detected |-> [encoding |-> Null, seemsBinary |-> FALSE]]

NoJournal == [detections |-> <<>>, hookArgs |-> <<>>, hookRets |-> <<>>,
              decoders |-> <<>>, decoderWrites |-> <<>>, failures |-> <<>>,
              resolves |-> <<>>]

\* no decode session is modelled
DecodeIdle ==
    /\ options = [guessEncoding |-> FALSE, minBytesRequiredForDetection |-> Undefined]
    /\ source = [paused |-> TRUE, ended |-> TRUE, emitted |-> <<>>, errored |-> FALSE]
    /\ bufferedChunks = <<>>
    /\ bytesBuffered = 0
    /\ decoder = NoDecoder
    /\ promise = [state |-> "off", detected |-> NoTask.detected, error |-> "none"]
    /\ target = <<>>
    /\ tasks = [data |-> NoTask, end |-> NoTask]
    /\ journal = NoJournal

\* toDecodeStream(source, options) has returned its promise
DecodeSession ==
    /\ options \in [guessEncoding : BOOLEAN,
                    minBytesRequiredForDetection : {Undefined, 0, 2}]
    /\ source = [paused |-> FALSE, ended |-> FALSE, emitted |-> <<>>, errored |-> FALSE]
    /\ bufferedChunks = <<>>
    /\ bytesBuffered = 0
    /\ decoder = NoDecoder
    /\ promise = [state |-> "pending", detected |-> NoTask.detected, error |-> "none"]
    /\ target = <<>>
    /\ tasks = [data |-> NoTask, end |-> NoTask]
    /\ journal = NoJournal

\* createDecoder() is called: it runs up to its first await, the call of
\* detectEncodingFromBuffer on the chunks buffered now
createDecoderCalled(by, chunks, bytes) ==
    /\ tasks' = [tasks EXCEPT ![by] = [pc |-> "detect", buffer |-> chunks,
                                       bytesRead |-> bytes,
                                       detected |-> NoTask.detected]]
    /\ journal' = [journal EXCEPT
                     !.detections = Append(@, [by |-> by, buffer |-> chunks,
                                               bytesRead |-> bytes])]

\* source.on('data', ...), lines 88-113, up to the await
OnData ==
    \E chunk \in 1..Len(Chunks) :
       /\ ~source.paused /\ ~source.ended
       /\ Len(source.emitted) < MaxChunks
       /\ UNCHANGED <<options, promise>>
       /\ IF decoder # NoDecoder
          THEN LET w == decoderWrite(decoder, Chunks[chunk])
               IN  /\ decoder' = w.decoder
                   /\ target' = Append(target, [op |-> "write", text |-> w.text])
                   /\ journal' = [journal EXCEPT
                                    !.decoderWrites = Append(@, <<chunk>>)]
                   /\ source' = [source EXCEPT !.emitted = Append(@, chunk)]
                   /\ UNCHANGED <<bufferedChunks, bytesBuffered, tasks>>
          ELSE LET chunks == bufferChunk(bufferedChunks, chunk)
                   bytes == bytesBuffered + Len(Chunks[chunk])
               IN  /\ bufferedChunks' = chunks
                   /\ bytesBuffered' = bytes
                   /\ UNCHANGED <<decoder, target>>
                   /\ IF bytes >= minBytesRequiredForDetection(options)
                      THEN /\ source' = [source EXCEPT !.emitted = Append(@, chunk),
                                                       !.paused = TRUE]
                           /\ createDecoderCalled("data", chunks, bytes)
                      ELSE /\ source' = [source EXCEPT !.emitted = Append(@, chunk)]
                           /\ UNCHANGED <<tasks, journal>>

\* source.on('error', ...), line 85
OnError ==
    /\ ~source.paused /\ ~source.ended
    /\ ~source.errored
    /\ source' = [source EXCEPT !.errored = TRUE]
    /\ target' = Append(target, [op |-> "error", text |-> <<>>])
    /\ UNCHANGED <<options, bufferedChunks, bytesBuffered, decoder, promise, tasks,
                   journal>>

OnEnd_withoutFlush ==
    /\ ~source.paused /\ ~source.ended
    /\ source' = [source EXCEPT !.ended = TRUE]
    /\ UNCHANGED <<options, bufferedChunks, bytesBuffered, decoder, promise>>
    /\ IF decoder = NoDecoder
       THEN /\ createDecoderCalled("end", bufferedChunks, bytesBuffered)
            /\ UNCHANGED target
       ELSE /\ target' = Append(target, [op |-> "end", text |-> <<>>])
            /\ UNCHANGED <<tasks, journal>>

\* source.on('end', ...), lines 116-127, up to the await if it gets there
OnEnd ==
    /\ ~source.paused /\ ~source.ended
    /\ source' = [source EXCEPT !.ended = TRUE]
    /\ UNCHANGED <<options, bufferedChunks, bytesBuffered, decoder, promise>>
    /\ IF decoder = NoDecoder
       THEN /\ createDecoderCalled("end", bufferedChunks, bytesBuffered)
            /\ UNCHANGED target
       ELSE /\ target' = Append(target, [op |-> "end", text |-> decoderEnd(decoder)])
            /\ UNCHANGED <<tasks, journal>>

\* createDecoder, lines 57-63: detectEncodingFromBuffer has settled; with its
\* result the override hook is called
DetectionSettled(by) ==
    /\ tasks[by].pc = "detect"
    /\ UNCHANGED <<options, source, bufferedChunks, bytesBuffered, decoder, target>>
    /\ LET buffer == concat(tasks[by].buffer)
           sync == detectSync(buffer, tasks[by].bytesRead)
       IN  \/ \E guessed \in SessionReports :
                 LET r == detectFinish(sync, buffer, options.guessEncoding, guessed)
                 IN  /\ tasks' = [tasks EXCEPT ![by].pc = "hook",
                                     ![by].detected = [encoding |-> r.encoding,
                                                       seemsBinary |-> r.seemsBinary]]
                     /\ journal' = [journal EXCEPT !.hookArgs = Append(@, r.encoding)]
                     /\ UNCHANGED promise
           \/ \* the classifier fails
              /\ MayFail
              /\ needsGuess(sync, buffer, options.guessEncoding)
              /\ promise' = catch(promise, "detect")
              /\ tasks' = [tasks EXCEPT ![by].pc = "return"]
              /\ journal' = [journal EXCEPT !.failures = Append(@, "detect")]

HookSettled_ignored(by) ==
    /\ tasks[by].pc = "hook"
    /\ UNCHANGED <<options, source, bufferedChunks, bytesBuffered, decoder, target>>
    /\ \/ \E encoding \in HookReturns(tasks[by].detected.encoding) :
             /\ encoding = BOGUS => MayFail
             /\ tasks' = [tasks EXCEPT ![by].pc = "import"]
             /\ journal' = [journal EXCEPT !.hookRets = Append(@, encoding)]
             /\ UNCHANGED promise
       \/ /\ MayFail
          /\ promise' = catch(promise, "hook")
          /\ tasks' = [tasks EXCEPT ![by].pc = "return"]
          /\ journal' = [journal EXCEPT !.failures = Append(@, "hook")]

\* createDecoder, lines 63-66: the override hook has settled
HookSettled(by) ==
    /\ tasks[by].pc = "hook"
    /\ UNCHANGED <<options, source, bufferedChunks, bytesBuffered, decoder, target>>
    /\ \/ \E encoding \in HookReturns(tasks[by].detected.encoding) :
             /\ encoding = BOGUS => MayFail
             /\ tasks' = [tasks EXCEPT ![by].pc = "import",
                                       ![by].detected.encoding = encoding]
             /\ journal' = [journal EXCEPT !.hookRets = Append(@, encoding)]
             /\ UNCHANGED promise
       \/ \* the hook fails
          /\ MayFail
          /\ promise' = catch(promise, "hook")
          /\ tasks' = [tasks EXCEPT ![by].pc = "return"]
          /\ journal' = [journal EXCEPT !.failures = Append(@, "hook")]

\* createDecoder, lines 66-81: iconv is loaded; the decoder is made and the
\* buffered chunks are decoded and written
IconvLoaded(by) ==
    /\ tasks[by].pc = "import"
    /\ tasks' = [tasks EXCEPT ![by].pc = "return"]
    /\ UNCHANGED <<options, source>>
    /\ LET enc == toNodeEncoding(tasks[by].detected.encoding)
       IN  IF encodingExists(enc)
           THEN LET w == decoderWrite(getDecoder(enc), concat(bufferedChunks))
                IN  /\ decoder' = w.decoder
                    /\ target' = Append(target, [op |-> "write", text |-> w.text])
                    /\ bufferedChunks' = <<>>
                    /\ bytesBuffered' = 0
                    /\ promise' = resolve(promise, tasks[by].detected)
                    /\ journal' = [journal EXCEPT
                                     !.decoders = Append(@, enc),
                                     !.decoderWrites = Append(@, bufferedChunks),
                                     !.resolves = Append(@, tasks[by].detected)]
           ELSE /\ promise' = catch(promise, "decoder")
                /\ journal' = [journal EXCEPT !.failures = Append(@, "decoder")]
                /\ UNCHANGED <<bufferedChunks, bytesBuffered, decoder, target>>

\* lines 106-110: the data handler goes on after await createDecoder()
DataHandlerResumed ==
    /\ tasks.data.pc = "return"
    /\ tasks' = [tasks EXCEPT !.data.pc = "timer"]
    /\ UNCHANGED <<options, source, bufferedChunks, bytesBuffered, decoder,
                   promise, target, journal>>

\* line 110: the timer fires, source.resume()
ResumeTimer ==
    /\ tasks.data.pc = "timer"
    /\ tasks' = [tasks EXCEPT !.data = NoTask]
    /\ source' = [source EXCEPT !.paused = FALSE]
    /\ UNCHANGED <<options, bufferedChunks, bytesBuffered, decoder, promise, target,
                   journal>>

EndHandlerResumed_withoutEnd ==
    /\ tasks.end.pc = "return"
    /\ tasks' = [tasks EXCEPT !.end = NoTask]
    /\ UNCHANGED <<options, source, bufferedChunks, bytesBuffered, decoder, promise,
                   target, journal>>

\* lines 122-126: the end handler goes on after await createDecoder()
EndHandlerResumed ==
    /\ tasks.end.pc = "return"
    /\ tasks' = [tasks EXCEPT !.end = NoTask]
    /\ target' = Append(target, [op |-> "end",
                                 text |-> IF decoder = NoDecoder THEN <<>>
                                          ELSE decoderEnd(decoder)])
    /\ UNCHANGED <<options, source, bufferedChunks, bytesBuffered, decoder, promise,
                   journal>>

(***************************************************************************)
(* Byte windows a caller can pass: a head (a marker, part of one, or       *)
(* nothing), a two-byte pattern filling the rest, optionally one byte      *)
(* around the end of the scanned prefix flipped between zero and non-zero. *)
(***************************************************************************)
SmallLen == 4
OverLen == 2

Heads == {<<>>, UTF16be_BOM, UTF16le_BOM, UTF8_BOM, <<239, 187>>, <<254>>}
WindowLens == (0..SmallLen)
              \cup ((ZERO_BYTE_DETECTION_BUFFER_MAX_LEN - 1)
                    ..(ZERO_BYTE_DETECTION_BUFFER_MAX_LEN + OverLen))

\* -1: no byte flipped
FlipAt == {-1, ZERO_BYTE_DETECTION_BUFFER_MAX_LEN - 1,
           ZERO_BYTE_DETECTION_BUFFER_MAX_LEN}

MakeBuffer(head, fill, n, flip) ==
    [i \in 1..n |->
        LET b == IF i <= Len(head) THEN head[i] ELSE FillByte(fill, i - 1)
        IN  IF i - 1 = flip THEN (IF b = 0 THEN 65 ELSE 0) ELSE b]

Buffers == {MakeBuffer(h, f, n, x) : h \in Heads, f \in Fills,
                                     n \in WindowLens, x \in FlipAt}

\* what jschardet.detect can report as the encoding: a label in any casing
\* and punctuation, the empty string, or nothing
ClassifierReports ==
    {Null, <<>>,
     <<"a", "s", "c", "i", "i">>, <<"A", "S", "C", "I", "I">>,
     <<"U", "T", "F", "-", "1", "6">>, <<"u", "t", "f", "1", "6">>,
     <<"U", "T", "F", "-", "1", "6", "L", "E">>,
     <<"U", "T", "F", "-", "3", "2">>, <<"U", "T", "F", "_", "3", "2">>,
     <<"U", "T", "F", "-", "8">>,
     <<"w", "i", "n", "d", "o", "w", "s", "-", "1", "2", "5", "2">>,
     <<"I", "B", "M", "8", "6", "6">>, <<"B", "i", "g", "5">>,
     <<"S", "H", "I", "F", "T", "_", "J", "I", "S">>}

NoResult == [seemsBinary |-> FALSE, encoding |-> Null, guesserInvoked |-> FALSE]

\* no detection call is modelled
DetectIdle ==
    /\ win = [buffer |-> NullBuffer, bytesRead |-> 0, autoGuessEncoding |-> FALSE]
    /\ det = [bom |-> Null, guessed |-> Null, result |-> NoResult]
    /\ dpc = "off"
    /\ cnEnc = <<>>
    /\ cnNames = <<>>

\* a caller is about to inspect one window
DetectWindow ==
    /\ \E buffer \in Buffers \cup {NullBuffer} :
       \E bytesRead \in {0, 1, 2, 3, Len(buffer)} :
       \E autoGuessEncoding \in BOOLEAN :
          /\ buffer # NullBuffer => bytesRead <= Len(buffer)
          /\ win = [buffer |-> buffer, bytesRead |-> bytesRead,
                    autoGuessEncoding |-> autoGuessEncoding]
    /\ det = [bom |-> Null, guessed |-> Null, result |-> NoResult]
    /\ dpc = "start"
    /\ cnEnc = <<>>
    /\ cnNames = <<>>

\* the caller calls detectEncodingByBOMFromBuffer
CallDetectByBOM ==
    /\ dpc = "start"
    /\ det' = [det EXCEPT !.bom =
                  detectEncodingByBOMFromBuffer(win.buffer, win.bytesRead)]
    /\ dpc' = "bom"
    /\ UNCHANGED <<win, nameVars>>

\* the caller calls detectEncodingFromBuffer; guessed is what the classifier
\* reports if the call asks it
CallDetect ==
    /\ dpc = "bom"
    /\ \E guessed \in ClassifierReports :
          LET r == detectEncodingFromBuffer(win.buffer, win.bytesRead,
                                            win.autoGuessEncoding, guessed)
          IN  det' = [det EXCEPT !.result = r,
                        !.guessed = IF r.guesserInvoked THEN guessed ELSE Null]
    /\ dpc' = "done"
    /\ UNCHANGED <<win, nameVars>>

DetectNext ==
    \/ CallDetectByBOM /\ UNCHANGED <<encodeVars, decodeVars>>
    \/ CallDetect /\ UNCHANGED <<encodeVars, decodeVars>>

DetectInit == DetectWindow /\ EncodeIdle /\ DecodeIdle

DetectSpec == DetectInit /\ [][DetectNext]_vars

\* the bytes the zero-byte scan may look at: the first min(bytesRead, 512)
ScannedPrefix == SubSeq(win.buffer, 1, Min(win.bytesRead, 512))

\* what C15 says the zero-byte heuristic makes of a scanned prefix, bom being
\* the BOM result
C15_Expected(prefix, bom) ==
    LET Zero(i) == prefix[i + 1] = 0
        Indices == 0..(Len(prefix) - 1)
    IN  IF \A i \in Indices : ~Zero(i)
        THEN [encoding |-> bom, seemsBinary |-> FALSE]
        ELSE IF \A i \in Indices : Zero(i) <=> (i % 2 = 1)
        THEN [encoding |-> UTF16le, seemsBinary |-> FALSE]
        ELSE IF \A i \in Indices : Zero(i) <=> (i % 2 = 0)
        THEN [encoding |-> UTF16be, seemsBinary |-> FALSE]
        ELSE [encoding |-> bom, seemsBinary |-> TRUE]

\* C15: for a window without UTF-16 BOM the zero-byte heuristic yields, from
\* the first min(bytesRead, 512) bytes alone: without a zero byte the BOM
\* result and seemsBinary false; with zero bytes at exactly the odd indices
\* UTF-16LE; at exactly the even indices UTF-16BE; else seemsBinary true. It
\* is the call's result unless the guesser runs, which it does only when the
\* heuristic left encoding none and seemsBinary false.
C15_ZeroByteHeuristic ==
    (dpc = "done" /\ win.buffer # NullBuffer /\ det.bom \notin {UTF16be, UTF16le})
        => LET e == C15_Expected(ScannedPrefix, det.bom)
           IN  IF det.result.guesserInvoked
               THEN e = [encoding |-> Null, seemsBinary |-> FALSE]
               ELSE /\ det.result.encoding = e.encoding
                    /\ det.result.seemsBinary = e.seemsBinary

\* a window longer than 512 bytes whose first 512 look like UTF-16LE and
\* whose byte at index 512 does not
C15_Witness ==
    /\ dpc = "done"
    /\ ~win.autoGuessEncoding
    /\ win.buffer # NullBuffer
    /\ win.bytesRead > 512
    /\ win.buffer[512] = 0 /\ win.buffer[513] = 0
    /\ det.result.encoding = UTF16le

\* the scan loop without its break
ScanAll(buffer, n) ==
    LET Zero(i) == readUInt8(buffer, i) = 0
        isEndian(i) == i % 2 = 1
        Indices == 0..(n - 1)
    IN  [couldBeUTF16LE |->
            ~\E i \in Indices : (isEndian(i) /\ ~Zero(i)) \/ (~isEndian(i) /\ Zero(i)),
         couldBeUTF16BE |->
            ~\E i \in Indices : (isEndian(i) /\ Zero(i)) \/ (~isEndian(i) /\ ~Zero(i)),
         containsZeroByte |-> \E i \in Indices : Zero(i)]

\* lines 320-370 with the scan run to its end
DetectWithoutBreak(buffer, bytesRead) ==
    LET bom == detectEncodingByBOMFromBuffer(buffer, bytesRead)
    IN  IF bom # UTF16be /\ bom # UTF16le /\ buffer # NullBuffer
        THEN LET st == ScanAll(buffer, Min(bytesRead, 512))
             IN  IF st.containsZeroByte
                 THEN IF st.couldBeUTF16LE
                      THEN [encoding |-> UTF16le, seemsBinary |-> FALSE]
                      ELSE IF st.couldBeUTF16BE
                      THEN [encoding |-> UTF16be, seemsBinary |-> FALSE]
                      ELSE [encoding |-> bom, seemsBinary |-> TRUE]
                 ELSE [encoding |-> bom, seemsBinary |-> FALSE]
        ELSE [encoding |-> bom, seemsBinary |-> FALSE]

\* the scan of the window stops at its break
ScanBreaks ==
    /\ win.buffer # NullBuffer
    /\ det.bom \notin {UTF16be, UTF16le}
    /\ \E i \in 1..Min(win.bytesRead, 512) :
          /\ win.buffer[i] = 0
          /\ i < Min(win.bytesRead, 512)
          /\ LET st == ScanAll(win.buffer, i)
             IN  ~st.couldBeUTF16LE /\ ~st.couldBeUTF16BE

\* C16: the break of the zero-byte scan changes no outcome: the call returns
\* the encoding and seemsBinary it would return with the scan run over all
\* of the first min(bytesRead, 512) bytes.
C16_BreakChangesNothing ==
    dpc = "done" =>
        LET full == DetectWithoutBreak(win.buffer, win.bytesRead)
            r == detectFinish(full, win.buffer, win.autoGuessEncoding, det.guessed)
        IN  /\ det.result.encoding = r.encoding
            /\ det.result.seemsBinary = r.seemsBinary

C16_Witness ==
    /\ dpc = "done"
    /\ ScanBreaks
    /\ win.bytesRead >= 512
    /\ det.result.seemsBinary

\* C20: a result with seemsBinary true has encoding none or UTF-8 with BOM,
\* never UTF-16LE or UTF-16BE; a result of the guess branch has seemsBinary
\* false.
C20_BinaryHasNoUTF16 ==
    dpc = "done" =>
        /\ det.result.seemsBinary => det.result.encoding \in {Null, UTF8_with_bom}
        /\ det.result.guesserInvoked => ~det.result.seemsBinary

C20_Witness ==
    /\ dpc = "done"
    /\ win.autoGuessEncoding
    /\ det.result.seemsBinary
    /\ det.result.encoding = Null
    /\ \E i \in 1..Min(win.bytesRead, 512) : win.buffer[i] = 0

(***************************************************************************)
(* A caller of toCanonicalName: it canonicalizes a label, then the result, *)
(* and so on.                                                              *)
(***************************************************************************)
MaxCalls == 2

\* labels of the switch, the names it returns, windowsNNNN labels and labels
\* no case applies to
PlainLabels ==
    {CanonicalCases[i][1] : i \in 1..Len(CanonicalCases)}
    \cup {CanonicalCases[i][2] : i \in 1..Len(CanonicalCases)}
    \cup
    {<<"u", "t", "f", "8">>,
     <<"u", "t", "f", "1", "6">>,
     <<"U", "T", "F", "1", "6", "L", "E">>,
     <<"c", "p", "1", "2", "5", "2">>,
     <<"w", "i", "n", "d", "o", "w", "s">>,
     <<"w", "i", "n", "d", "o", "w", "s", "-", "1", "2", "5", "2">>,
     <<"w", "i", "n", "d", "o", "w", "s", "1", "2", "5", "2">>,
     <<"w", "i", "n", "d", "o", "w", "s", "8", "7", "4">>,
     <<"w", "i", "n", "d", "o", "w", "s", "1">>,
     <<"i", "s", "o", "8", "8", "5", "9", "1">>,
     <<"g", "b", "1", "8", "0", "3", "0">>,
     <<"a", "s", "c", "i", "i">>,
     <<>>}

\* the same inside a longer string
Affixes == {<<>>, <<"x">>, <<"1">>, <<"-">>}
Labels == {p \o l \o q : p \in Affixes, l \in PlainLabels, q \in Affixes}

NameCaller ==
    /\ cnEnc \in Labels
    /\ cnNames = <<>>

CallToCanonicalName ==
    /\ Len(cnNames) < MaxCalls
    /\ cnNames' = Append(cnNames,
                         toCanonicalName(IF cnNames = <<>> THEN cnEnc
                                         ELSE cnNames[Len(cnNames)]))
    /\ UNCHANGED <<cnEnc, win, det, dpc>>

NameInit ==
    /\ NameCaller
    /\ win = [buffer |-> NullBuffer, bytesRead |-> 0, autoGuessEncoding |-> FALSE]
    /\ det = [bom |-> Null, guessed |-> Null, result |-> NoResult]
    /\ dpc = "off"
    /\ EncodeIdle
    /\ DecodeIdle

NameNext == CallToCanonicalName /\ UNCHANGED <<encodeVars, decodeVars>>

NameSpec == NameInit /\ [][NameNext]_vars

\* C11: toCanonicalName is idempotent: canonicalizing a canonicalized label
\* returns it unchanged, for the labels of the switch, windowsNNNN labels and
\* labels passed through.
C11_Idempotent ==
    \A i \in 2..Len(cnNames) : cnNames[i] = cnNames[i - 1]

C11_Witness ==
    /\ cnEnc = <<"x", "w", "i", "n", "d", "o", "w", "s", "1", "2", "5", "2", "x">>
    /\ cnNames = <<<<"w", "i", "n", "d", "o", "w", "s", "-", "1", "2", "5", "2">>, <<"w", "i", "n", "d", "o", "w", "s", "-", "1", "2", "5", "2">>>>

(***************************************************************************)
(* Properties of the detection functions                                   *)
(***************************************************************************)
StartsWith(buffer, marker) ==
    /\ buffer # NullBuffer
    /\ Len(buffer) >= Len(marker)
    /\ SubSeq(buffer, 1, Len(marker)) = marker

\* the scanned prefix of the window holds a zero byte, so that the zero-byte
\* heuristic decides on UTF-16 or on binary
ZeroInScannedPrefix ==
    /\ win.buffer # NullBuffer
    /\ \E i \in 1..Min(win.bytesRead, 512) : win.buffer[i] = 0

\* C7: whenever the BOM detector finds a BOM, the final encoding is that BOM
\* result whatever the zero bytes of the window; and whenever the BOM or the
\* zero-byte heuristic decides (an encoding, or seemsBinary) the statistical
\* guesser is not invoked, even with guessing enabled.
C7_PrecedenceChain ==
    dpc = "done" =>
        /\ det.bom # Null => det.result.encoding = det.bom
        /\ (det.bom # Null \/ ZeroInScannedPrefix) => ~det.result.guesserInvoked

C7_Witness ==
    /\ dpc = "done"
    /\ win.autoGuessEncoding
    /\ det.bom = UTF8_with_bom
    /\ ZeroInScannedPrefix
    /\ det.result.seemsBinary

C8_Expected(buffer, bytesRead) ==
    IF buffer = NullBuffer \/ bytesRead < 2 THEN Null
    ELSE IF StartsWith(buffer, <<254, 255>>) THEN UTF16be
    ELSE IF StartsWith(buffer, <<255, 254>>) THEN UTF16le
    ELSE IF bytesRead >= 3 /\ StartsWith(buffer, <<239, 187, 191>>)
    THEN UTF8_with_bom
    ELSE Null

\* C8: detectEncodingByBOMFromBuffer returns none for a null buffer or fewer
\* than 2 valid bytes, UTF-16BE for a leading FE FF and UTF-16LE for a leading
\* FF FE whatever follows, UTF-8-with-BOM for a leading EF BB BF with at least
\* 3 valid bytes, and none in every other case.
C8_BOMDetector ==
    dpc # "start" => det.bom = C8_Expected(win.buffer, win.bytesRead)

C8_Witness ==
    /\ dpc = "bom"
    /\ det.bom = UTF16be
    /\ win.bytesRead > ZERO_BYTE_DETECTION_BUFFER_MAX_LEN
    /\ ZeroInScannedPrefix

IsPrefix(p, s) == Len(p) <= Len(s) /\ SubSeq(s, 1, Len(p)) = p

\* the label names ASCII, UTF-16 or UTF-32, in any casing and punctuation
NamesIgnoredEncoding(label) ==
    LET n == toLowerCase(stripNonAlphaNumeric(label))
    IN  \/ n = <<"a", "s", "c", "i", "i">>
        \/ IsPrefix(<<"u", "t", "f", "1", "6">>, n)
        \/ IsPrefix(<<"u", "t", "f", "3", "2">>, n)

\* C9: the statistical guesser never returns a label naming ASCII, UTF-16 or
\* UTF-32, whatever the casing or punctuation of the label the classifier
\* reported.
C9_GuesserNeverReturnsIgnored ==
    (dpc = "done" /\ det.result.guesserInvoked)
        => ~NamesIgnoredEncoding(det.result.encoding)

(***************************************************************************)
(* The encode session                                                      *)
(***************************************************************************)
EncodeInit == EncodeSession /\ DetectIdle /\ DecodeIdle

EncodeNext == Read /\ UNCHANGED <<pureVars, decodeVars>>

EncodeSpec == EncodeInit /\ [][EncodeNext]_vars

\* C10: with addBOM and an empty source, the reads of a UTF target return
\* exactly one buffer, the BOM of the target encoding, and null ever after.
C10_EmptyInputBOM ==
    (eAddBOM /\ eSource = <<>> /\ eEncoding \in {UTF8, UTF8_with_bom, UTF16be, UTF16le})
        => \A i \in 1..Len(eReads) :
              eReads[i] = IF i > 1 THEN NullBuffer
                          ELSE IF eEncoding = UTF16be THEN <<254, 255>>
                          ELSE IF eEncoding = UTF16le THEN <<255, 254>>
                          ELSE <<239, 187, 191>>

C10_Witness ==
    /\ eAddBOM
    /\ eSource = <<>>
    /\ eEncoding = UTF16le
    /\ eReads = <<<<255, 254>>, NullBuffer, NullBuffer>>

\* what the calls of read() returned, nulls left out, in one piece
RECURSIVE Output(_)
Output(reads) ==
    IF reads = <<>> THEN <<>>
    ELSE (IF reads[1] = NullBuffer THEN <<>> ELSE reads[1]) \o Output(Tail(reads))

\* C18: end-of-sequence is sticky: once read() has got a non-string from the
\* source, done is set, every later read() returns null, the source is not
\* read again and encoder.end() has been called at most once.
C18_DoneIsSticky ==
    /\ eDone <=> Len(eReads) > Len(eSource)
    /\ \A i \in 1..Len(eReads) : i > Len(eSource) + 1 => eReads[i] = NullBuffer
    /\ eCalls.sourceRead = Min(Len(eReads), Len(eSource) + 1)
    /\ eCalls.encoderEnd <= 1

C18_Witness ==
    /\ eDone
    /\ Len(eSource) = 1
    /\ Len(eReads) = 4
    /\ eCalls.encoderEnd = 1
    /\ eCalls.sourceRead = 2
    /\ eReads[3] = NullBuffer /\ eReads[4] = NullBuffer

\* the characters of the source in one piece, encoded without BOM
EncodedWhole ==
    LET enc == getEncoder(toNodeEncoding(eEncoding), FALSE)
        w == encoderWrite(enc, Flatten(eSource))
    IN  w.bytes \o encoderEnd(w.encoder).bytes

\* C19: with addBOM and a UTF target the output of all read() calls holds the
\* BOM exactly once, at its start, followed by the encoded characters, for
\* every source, also one that yields only empty strings before its end.
C19_BOMExactlyOnce ==
    (eDone /\ eAddBOM /\ EmptyInputBOM(eEncoding) # NullBuffer)
        => Output(eReads) = EmptyInputBOM(eEncoding) \o EncodedWhole

(***************************************************************************)
(* The decode session                                                      *)
(***************************************************************************)
Init == DecodeSession /\ DetectIdle /\ EncodeIdle

Next ==
    \/ OnData /\ UNCHANGED <<pureVars, encodeVars>>
    \/ OnError /\ UNCHANGED <<pureVars, encodeVars>>
    \/ OnEnd /\ UNCHANGED <<pureVars, encodeVars>>
    \/ \E by \in {"data", "end"} :
          DetectionSettled(by) /\ UNCHANGED <<pureVars, encodeVars>>
    \/ \E by \in {"data", "end"} :
          HookSettled(by) /\ UNCHANGED <<pureVars, encodeVars>>
    \/ \E by \in {"data", "end"} :
          IconvLoaded(by) /\ UNCHANGED <<pureVars, encodeVars>>
    \/ DataHandlerResumed /\ UNCHANGED <<pureVars, encodeVars>>
    \/ ResumeTimer /\ UNCHANGED <<pureVars, encodeVars>>
    \/ EndHandlerResumed /\ UNCHANGED <<pureVars, encodeVars>>

Spec == Init /\ [][Next]_vars

(***************************************************************************)
(* Properties of the decode session                                        *)
(***************************************************************************)
\* the texts written to the target, in order
Writes == SelectSeq(target, LAMBDA call : call.op = "write")
Ends == SelectSeq(target, LAMBDA call : call.op = "end")

\* no createDecoder call is under way
NoTaskRunning == tasks.data.pc = "idle" /\ tasks.end.pc = "idle"

\* the end handler has run to its end
EndHandled == source.ended /\ tasks.end.pc = "idle"

EndedWhileBuffering ==
    /\ EndHandled
    /\ journal.detections # <<>>
    /\ journal.detections[Len(journal.detections)].by = "end"

\* what C2 promises of a session that ended while buffering
C2_Outcome ==
    LET last == journal.detections[Len(journal.detections)]
    IN  /\ last.buffer = source.emitted
        /\ last.bytesRead = Len(concat(source.emitted))
        /\ promise.state = "resolved"
        /\ Len(journal.resolves) = 1
        /\ promise.detected = journal.resolves[1]
        /\ Len(Writes) = 1
        /\ Writes[1].text
             = decoderWrite(getDecoder(toNodeEncoding(promise.detected.encoding)),
                            concat(source.emitted)).text
        /\ Len(Ends) = 1
        /\ target[Len(target)].op = "end"

C3_Threshold ==
    IF options.minBytesRequiredForDetection # Undefined
    THEN options.minBytesRequiredForDetection
    ELSE IF options.guessEncoding THEN 4096 ELSE 512

\* C3: while buffering, detection starts on the first chunk that brings the
\* buffered byte count to the threshold and not earlier, the threshold being
\* options.minBytesRequiredForDetection when given, else 4096 with guessing
\* and 512 without. (Sessions in which a step of createDecoder has thrown are
\* left aside: after a throw the session buffers on.)
C3_DetectionAtThreshold ==
    journal.failures = <<>> =>
        /\ \A i \in 1..Len(journal.detections) :
              LET d == journal.detections[i]
              IN  d.by = "data" =>
                     /\ d.bytesRead >= C3_Threshold
                     /\ d.bytesRead - Len(Chunks[d.buffer[Len(d.buffer)]])
                          < C3_Threshold
        /\ (decoder = NoDecoder /\ NoTaskRunning /\ ~source.ended
            /\ source.emitted # <<>>)
              => bytesBuffered < C3_Threshold

\* C4: once the source has emitted an error, no later chunk is buffered,
\* decoded or written downstream and no detection is started.
C4_ErrorAbandons ==
    [][source.errored =>
          /\ bufferedChunks' = bufferedChunks
          /\ journal'.decoderWrites = journal.decoderWrites
          /\ journal'.detections = journal.detections
          /\ Len(SelectSeq(target', LAMBDA call : call.op = "write"))
               = Len(SelectSeq(target, LAMBDA call : call.op = "write"))]_vars

\* C5: when the source has emitted an error and nothing is left to run unless
\* the source emits again, the promise has settled.
C5_ErrorSettlesPromise ==
    (source.errored /\ NoTaskRunning) => promise.state # "pending"

\* C6: once the orchestrator, the override hook or the decoder construction
\* has thrown, the promise is rejected, with the error of the first throw, and
\* stays so whatever the session does afterwards.
C6_ThrowRejects ==
    journal.failures # <<>>
        => /\ promise.state = "rejected"
           /\ promise.error = journal.failures[1]

C6_Witness ==
    /\ journal.failures # <<>>
    /\ journal.resolves # <<>>
    /\ decoder # NoDecoder
    /\ promise.state = "rejected"

\* the data handler's createDecoder call is between its start and its return
DataSetupRunning == tasks.data.pc \in {"detect", "hook", "import", "return"}

\* C12: in the data path the source is paused while orchestrator, hook and
\* decoder construction run, and source.resume() is scheduled only when the
\* decoder exists and the buffered prefix has been decoded and written:
\* intake is never resumed while the session has no decoder.
C12_PausedAroundSetup ==
    /\ DataSetupRunning => source.paused
    /\ tasks.data.pc = "timer"
          => /\ decoder # NoDecoder
             /\ bufferedChunks = <<>>
             /\ Writes # <<>>
    /\ (~source.paused /\ \E i \in 1..Len(journal.detections) :
                              journal.detections[i].by = "data")
          => decoder # NoDecoder

\* C13: createDecoder runs at most once in a session and never while another
\* call of it is under way, whatever the interleaving and also when it fails.
C13_SetupAtMostOnce ==
    /\ Len(journal.detections) <= 1
    /\ ~(tasks.data.pc \in {"detect", "hook", "import"}
         /\ tasks.end.pc \in {"detect", "hook", "import"})

\* the target is ended at most once and nothing is written to it afterwards
EndedOnceAndLast ==
    /\ Len(Ends) <= 1
    /\ \A i \in 1..Len(target) : \A j \in (i + 1)..Len(target) :
          target[i].op = "end" => target[j].op # "write"
    /\ EndHandled => Len(Ends) = 1

\* all input has been decoded and written, the decoder's residual last
WholeInputWritten ==
    LET texts == [i \in 1..Len(Writes) |-> Writes[i].text]
        whole == decoderWrite(getDecoder(journal.decoders[1]),
                              concat(source.emitted))
    IN  /\ Len(journal.decoders) = 1
        /\ concat(Flatten(journal.decoderWrites)) = concat(source.emitted)
        /\ Len(Writes) = Len(journal.decoderWrites)
        /\ target[Len(target)].op = "end"
        /\ Flatten(texts) \o Ends[1].text
             = whole.text \o decoderEnd(whole.decoder)

\* C14 as stated: on end-of-input the target is ended exactly once, only
\* after the decoded text of every input chunk has been written, with the
\* decoder's flushed residual as the final chunk, and nothing is written
\* after the end.
C14_EndAfterAllText ==
    /\ EndedOnceAndLast
    /\ EndHandled => WholeInputWritten

\* C14 as amended: the same, the part about the written text and the residual
\* holding when the session has a decoder at that point (createDecoder has not
\* thrown on end-of-input).
C14_EndAfterAllTextOfDecoder ==
    /\ EndedOnceAndLast
    /\ (EndHandled /\ decoder # NoDecoder) => WholeInputWritten

C14_Witness ==
    /\ EndHandled
    /\ decoder # NoDecoder
    /\ Len(source.emitted) = 2
    /\ Writes # <<>>
    /\ Ends = <<[op |-> "end", text |-> <<ReplacementChar>>]>>

\* what the orchestrator can produce for the latest createDecoder call
LatestDetected ==
    LET d == journal.detections[Len(journal.detections)]
        buffer == concat(d.buffer)
        sync == detectSync(buffer, d.bytesRead)
    IN  {detectFinish(sync, buffer, options.guessEncoding, guessed) :
            guessed \in SessionReports}

\* C17: the override hook is called with the encoding the orchestrator
\* produced (possibly none); the decoder is made for what the hook returned,
\* UTF-8 with BOM and none taken as UTF-8, not for the detected encoding; the
\* DetectionResult delivered carries the hook's return value as encoding and
\* seemsBinary as detected.
C17_HookDecides ==
    /\ \A by \in {"data", "end"} :
          tasks[by].pc = "hook"
             => /\ journal.hookArgs # <<>>
                /\ \E r \in LatestDetected :
                      /\ journal.hookArgs[Len(journal.hookArgs)] = r.encoding
                      /\ tasks[by].detected.seemsBinary = r.seemsBinary
    /\ journal.decoders # <<>>
          => LET returned == journal.hookRets[Len(journal.hookRets)]
                 passed == journal.hookArgs[Len(journal.hookArgs)]
             IN  /\ Len(journal.decoders) = 1
                 /\ Len(journal.resolves) = 1
                 /\ journal.decoders[1]
                      = (IF returned \in {UTF8_with_bom, Null} THEN UTF8 ELSE returned)
                 /\ decoder.enc = journal.decoders[1]
                 /\ journal.resolves[1].encoding = returned
                 \* compared while the call that made the decoder is on its
                 \* way back to its handler: the journal entries stay
                 /\ ~NoTaskRunning
                       => \E r \in LatestDetected :
                             /\ passed = r.encoding
                             /\ journal.resolves[1].seemsBinary = r.seemsBinary
                 /\ promise.state = "resolved" => promise.detected = journal.resolves[1]

C17_Witness ==
    /\ journal.hookArgs = <<UTF8_with_bom>>
    /\ journal.hookRets = <<UTF16le>>
    /\ journal.decoders = <<UTF16le>>
    /\ promise.state = "resolved"
    /\ promise.detected.encoding = UTF16le

====
